---------------------------- MODULE Spec2Model ----------------------------
(***************************************************************************)
(* git-why: the history-resolution pipeline (lib/git-why.js, class GitWhy) *)
(* and the command-line driver (bin/git-why.js).                           *)
(*                                                                         *)
(* Text is modelled as sequences of words: a line of git output is the     *)
(* sequence of its space-separated words, a source line is the sequence of *)
(* its lexical tokens, and the text after the colon of a command-line      *)
(* target is the sequence of its digit runs, dashes and other runs.        *)
(* An optional JavaScript value (undefined, null or NaN against a number)  *)
(* is the empty sequence, a present value v is <<v>>.                      *)
(***************************************************************************)
EXTENDS Integers, Sequences, FiniteSets, TLC

VARIABLES
  pc,             \* position of the process
  targets,        \* argv: the targets given on the command line
  options,        \* commander options: function, json, color
  repo,           \* the working directory: isGitRepo, file exists, tracked, fixture
  parsedTargets,  \* bin/git-why.js:42
  index,          \* position of the target loop, bin/git-why.js:81
  results,        \* bin/git-why.js:79
  spinner,        \* number of interval timers that are active
  exitCode,       \* <<>> while running, <<code>> once the process has ended
  stderr,         \* the messages written with console.error
  displayed,      \* the results printed, in order
  targetLine,     \* explain: let targetLine
  targetEndLine,  \* explain: let targetEndLine
  commits,        \* explain: const commits
  commitDetails,  \* explain: const commitDetails
  context,        \* explain: const context (getCodeContext's return value)
  error,          \* the Error thrown in the current run of explain, or <<>>
  prompt,         \* callAI: const prompt, <<>> until it is built
  result,         \* the value explain returns, <<>> until it returns
  calls,          \* operations invoked by the current run of explain, in order
  processed,      \* indexes of the targets explain was invoked for, in order
  output,         \* the text handed to parseBlameOutput
  unique,         \* the sequence returned by parseBlameOutput
  args            \* the arguments of a method that is called on its own

vars == <<pc, targets, options, repo, parsedTargets, index, results, spinner,
          exitCode, stderr, displayed, targetLine, targetEndLine, commits,
          commitDetails, context, prompt, result, error, calls, processed,
          output, unique, args>>

cliVars == <<parsedTargets, index, results, spinner, exitCode, stderr, displayed,
             processed>>

inputVars == <<targets, options, repo, args>>

runVars == <<targetLine, targetEndLine, commits, commitDetails, context, prompt,
             result, error, calls, output, unique>>

(***************************************************************************)
(* Bounds of the model.                                                    *)
(***************************************************************************)
MaxOutputLines == 4
MaxTargets == 2
MaxFileLines == 4
MaxRadius == 3
MaxLongFile == 53

(***************************************************************************)
(* Generic helpers.                                                        *)
(***************************************************************************)
Min(a, b) == IF a < b THEN a ELSE b
Max(a, b) == IF a > b THEN a ELSE b

SeqsUpTo(S, n) == UNION {[1..k -> S] : k \in 0..n}

\* JavaScript truthiness of an optional number: undefined, NaN and 0 are falsy.
Truthy(v) == v # <<>> /\ v[1] # 0

\* Array.prototype.slice(start, end): 0-based start, exclusive end, a negative
\* index counts from the end of the array.
SliceIndex(s, k) == IF k < 0 THEN Max(Len(s) + k, 0) ELSE Min(k, Len(s))

Slice(s, start, end) == SubSeq(s, SliceIndex(s, start) + 1, SliceIndex(s, end))

(***************************************************************************)
(* parseInt on a run of text.  Decimal numerals are the only words that    *)
(* parse; anything else, and the empty text, gives NaN (<<>>).             *)
(***************************************************************************)
NumeralValue == [w \in {"0", "1", "2", "4", "99", "100", "200"} |->
                   CASE w = "0" -> 0 [] w = "1" -> 1 [] w = "2" -> 2
                     [] w = "4" -> 4 [] w = "99" -> 99 [] w = "100" -> 100
                     [] w = "200" -> 200]

parseInt(text) ==
  IF text # <<>> /\ text[1] \in DOMAIN NumeralValue
  THEN <<NumeralValue[text[1]]>>
  ELSE <<>>

isNaN(v) == v = <<>>

(***************************************************************************)
(* GitWhy.parseBlameOutput (lib/git-why.js:59-94).                         *)
(***************************************************************************)
\* Words that begin with 40 hexadecimal digits.
HexWords == {"c1", "c2", "c3", "c4", "c5", "c6"}

\* line.match(/^[0-9a-f]{40}/)
IsHeader(line) == line # <<>> /\ line[1] \in HexWords

\* line.startsWith(prefix + ' '): the first word is the prefix and a space
\* follows it, so the line has a second (possibly empty) word.
StartsWith(line, word) == Len(line) >= 2 /\ line[1] = word

\* currentCommit = {}
EmptyCommit == [hash |-> <<>>, author |-> <<>>, timestamp |-> <<>>, summary |-> <<>>]

\* One iteration of the for loop of lines 64-77 on the pair
\* <<commits, currentCommit>>.
ParseLine(st, line) ==
  LET cs == st[1]
      cur == st[2]
  IN  IF IsHeader(line)
      THEN <<IF cur.hash # <<>> THEN Append(cs, cur) ELSE cs,
             [EmptyCommit EXCEPT !.hash = <<line[1]>>]>>
      ELSE IF StartsWith(line, "author")
      THEN <<cs, [cur EXCEPT !.author = <<Tail(line)>>]>>
      ELSE IF StartsWith(line, "author-time")
      THEN <<cs, [cur EXCEPT !.timestamp = parseInt(Tail(line))]>>
      ELSE IF StartsWith(line, "summary")
      THEN <<cs, [cur EXCEPT !.summary = <<Tail(line)>>]>>
      ELSE st

\* The loop of lines 64-77 from line i of the output on.  The test on the
\* new loop state is always true: it makes TLC evaluate the state at every
\* iteration instead of building one nested expression for the whole output.
RECURSIVE ParseLines(_, _, _)
ParseLines(st, lines, i) ==
  IF i > Len(lines) THEN st
  ELSE LET next == ParseLine(st, lines[i])
       IN  IF Len(next) = 2 THEN ParseLines(next, lines, i + 1) ELSE next

NoFlushLast(st) == st[1]

\* Lines 79-81: the entry in progress at the end of the input is flushed.
FlushLast(st) == IF st[2].hash # <<>> THEN Append(st[1], st[2]) ELSE st[1]

HashesOf(cs) == {cs[i].hash : i \in 1..Len(cs)}

\* Lines 83-91: deduplicate by hash, keeping the first record of each hash.
RECURSIVE DedupFrom(_, _, _)
DedupFrom(acc, cs, i) ==
  IF i > Len(cs) THEN acc
  ELSE DedupFrom(IF cs[i].hash \in HashesOf(acc) THEN acc ELSE Append(acc, cs[i]),
                 cs, i + 1)

NoDedup(cs) == cs

Dedup(cs) == DedupFrom(<<>>, cs, 1)

parseBlameOutput(out) ==
  Dedup(FlushLast(ParseLines(<<<<>>, EmptyCommit>>, out, 1)))

(***************************************************************************)
(* The working directory.  A file is its lines (each the sequence of its   *)
(* tokens, every line ended by a newline) and, per line, the commit that   *)
(* git blame attributes it to.                                             *)
(***************************************************************************)
FileA ==
  [lines |-> << <<"const", "one", "=", "(", ")", "=>", "{", "return", "1", "}">>,
                <<"function", "hello", "(", "name", ")", "{">>,
                <<"if", "(", "name", ")", "{">>,
                <<"}">>,
                <<"}">>,
                <<"function", "broken", "(", ")", "{">>,
                <<"return">> >>,
   blame |-> <<"c1", "c2", "c3", "c2", "c4", "c5", "c6">>]

FileEmpty == [lines |-> <<>>, blame |-> <<>>]

Fixture(name) == IF name = "a" THEN FileA ELSE FileEmpty

\* readFileSync(filePath, 'utf-8').split('\n'): the text after the last newline
\* is an element too, the empty line.
SplitLines(file) == Append(file.lines, <<>>)

AuthorOf(h) == IF h \in {"c1", "c3", "c5"} THEN <<"Alice">> ELSE <<"Bob", "B">>
TimeOf(h) == IF h \in {"c1", "c2"} THEN "100" ELSE "200"
SummaryOf(h) == IF h = "c1" THEN <<"Initial", "implementation">> ELSE <<"Fix", h>>

\* git blame -w --line-porcelain: what it prints for one line of the file.
PorcelainLine(file, n) ==
  LET h == file.blame[n]
  IN  << <<h, "1">>,
         <<"author">> \o AuthorOf(h),
         <<"author-mail", "<x@y>">>,
         <<"author-time", TimeOf(h)>>,
         <<"summary">> \o SummaryOf(h),
         <<"\t">> \o file.lines[n] >>

RECURSIVE PorcelainLines(_, _, _)
PorcelainLines(file, from, to) ==
  IF from > to THEN <<>>
  ELSE PorcelainLine(file, from) \o PorcelainLines(file, from + 1, to)

\* The lines git blame annotates for the -L argument `range`: <<>> without -L,
\* <<s>> for -L s (from s to the end of the file), <<s, e>> for -L s,e (the
\* two are swapped when e < s, and e is clipped to the end of the file).
\* git fails when the first line is past the end of the file.
BlameBottom(range) ==
  IF range = <<>> THEN 1
  ELSE IF Len(range) = 1 THEN Max(range[1], 1)
  ELSE Max(Min(range[1], range[2]), 1)

BlameTop(file, range) ==
  IF Len(range) < 2 THEN Len(file.blame)
  ELSE Min(Max(range[1], range[2]), Len(file.blame))

GitBlameFails(file, range) == range # <<>> /\ BlameBottom(range) > Len(file.blame)

GitBlame(file, range) ==
  PorcelainLines(file, BlameBottom(range), BlameTop(file, range))

\* GitWhy.getBlame, lines 43-47: the -L argument built from the two bounds.
BlameRange(lineNumber, endLine) ==
  IF Truthy(lineNumber)
  THEN IF Truthy(endLine) THEN <<lineNumber[1], endLine[1]>> ELSE <<lineNumber[1]>>
  ELSE <<>>

(***************************************************************************)
(* GitWhy.getCommitDetails (lib/git-why.js:99-109).                        *)
(***************************************************************************)
DiffLen(h) == IF h = "c1" THEN 102 ELSE 3

getCommitDetails(h) ==
  [message |-> <<"message", h>>,
   diff |-> [i \in 1..DiffLen(h) |-> i],
   files |-> <<"M", "a.js">>]

(***************************************************************************)
(* GitWhy.getCodeContext (lib/git-why.js:114-126).                         *)
(***************************************************************************)
ContextLines == 5

\* Array.prototype.join('\n'): the words of the lines, a newline between two
\* lines.
RECURSIVE Join(_)
Join(lines) ==
  IF lines = <<>> THEN <<>>
  ELSE IF Len(lines) = 1 THEN lines[1]
  ELSE lines[1] \o <<"\n">> \o Join(Tail(lines))

\* The window is not clipped at the first line.
getCodeContextUnclipped(file, lineNumber, contextLines) ==
  LET lines == SplitLines(file)
      start == lineNumber - contextLines - 1
      end == Min(Len(lines), lineNumber + contextLines)
  IN  [code |-> Join(Slice(lines, start, end)),
       startLine |-> start + 1,
       targetLine |-> lineNumber]

\* The window starts one line late.
getCodeContextOffByOne(file, lineNumber, contextLines) ==
  LET lines == SplitLines(file)
      start == Max(0, lineNumber - contextLines)
      end == Min(Len(lines), lineNumber + contextLines)
  IN  [code |-> Join(Slice(lines, start, end)),
       startLine |-> start + 1,
       targetLine |-> lineNumber]

getCodeContext(file, lineNumber, contextLines) ==
  LET lines == SplitLines(file)
      start == Max(0, lineNumber - contextLines - 1)
      end == Min(Len(lines), lineNumber + contextLines)
  IN  [code |-> Join(Slice(lines, start, end)),
       startLine |-> start + 1,
       targetLine |-> lineNumber]

(***************************************************************************)
(* GitWhy.findFunction (lib/git-why.js:162-183).                           *)
(***************************************************************************)
\* The five declaration patterns for a name, each a run of three tokens.
Patterns(name) ==
  << <<"function", name, "(">>,
     <<"const", name, "=">>,
     <<"def", name, "(">>,
     <<"func", name, "(">>,
     <<name, ":", "function">> >>

\* pattern.test(line): the pattern occurs somewhere in the line.
Test(pattern, line) ==
  \E i \in 1..Len(line) :
    /\ i + Len(pattern) - 1 <= Len(line)
    /\ SubSeq(line, i, i + Len(pattern) - 1) = pattern

MatchingLines(lines, name) ==
  {i \in 1..Len(lines) :
     \E k \in 1..Len(Patterns(name)) : Test(Patterns(name)[k], lines[i])}

\* The inner loop (175-179): a pattern from the k-th on matches the line.
RECURSIVE TestFrom(_, _, _)
TestFrom(patterns, line, k) ==
  IF k > Len(patterns) THEN FALSE
  ELSE IF Test(patterns[k], line) THEN TRUE
  ELSE TestFrom(patterns, line, k + 1)

\* The outer loop (174-180) from line i on: <<line>> for the first line a
\* pattern matches, <<>> when the loop ends without a match.
RECURSIVE FindFrom(_, _, _)
FindFrom(lines, patterns, i) ==
  IF i > Len(lines) THEN <<>>
  ELSE IF TestFrom(patterns, lines[i], 1) THEN <<i>>
  ELSE FindFrom(lines, patterns, i + 1)

\* The patterns are tried one after the other, each on the whole file.
findFunctionPatternFirst(file, name) ==
  LET lines == SplitLines(file)
      hits(k) == {i \in 1..Len(lines) : Test(Patterns(name)[k], lines[i])}
      ks == {k \in 1..Len(Patterns(name)) : hits(k) # {}}
  IN  IF ks = {} THEN <<>>
      ELSE LET k == CHOOSE a \in ks : \A b \in ks : a <= b
           IN  <<CHOOSE i \in hits(k) : \A j \in hits(k) : i <= j>>

\* <<line>> for the first matching line, <<>> when the function throws.
findFunction(file, name) == FindFrom(SplitLines(file), Patterns(name), 1)

\* Line 182: the Error names the function and the file path.
NotFoundError(functionName, filePath) ==
  [message |-> "Function not found", functionName |-> functionName,
   filePath |-> filePath]

(***************************************************************************)
(* GitWhy.findFunctionAtLine (lib/git-why.js:131-157).  A word is a token  *)
(* of \\w characters; each pattern gives <<name>> for its leftmost match in *)
(* a line and <<>> when it does not match.                                 *)
(***************************************************************************)
LookbackLimit == 50

Punctuation == {"(", ")", "{", "}", "=", "=>", ":", "-", "\t", "\n"}

Word(t) == t \notin Punctuation

At(line, i) == IF i >= 1 /\ i <= Len(line) THEN line[i] ELSE "\n"

Leftmost(S) == CHOOSE i \in S : \A j \in S : i <= j

\* /kw\s+(\w+)\s*\(/, and /kw\s+(\w+)/ when no parenthesis is asked for.
KeywordName(line, kw, paren) ==
  LET hits == {i \in 1..Len(line) :
                 /\ line[i] = kw
                 /\ Word(At(line, i + 1))
                 /\ paren => At(line, i + 2) = "("}
  IN  IF hits = {} THEN <<>> ELSE <<line[Leftmost(hits) + 1]>>

\* \([^)]*\) from the parenthesis at j: the position of the parenthesis that
\* closes it, 0 when there is none.
CloseAfter(line, j) ==
  LET closes == {c \in (j + 1)..Len(line) : line[c] = ")"}
  IN  IF At(line, j) # "(" \/ closes = {} THEN 0 ELSE Leftmost(closes)

\* /const\s+(\w+)\s*=\s*(?:async\s*)?\([^)]*\)\s*=>/
ArrowName(line) ==
  LET open(i) == IF At(line, i + 3) = "async" THEN i + 4 ELSE i + 3
      hits == {i \in 1..Len(line) :
                 /\ line[i] = "const"
                 /\ Word(At(line, i + 1))
                 /\ At(line, i + 2) = "="
                 /\ CloseAfter(line, open(i)) # 0
                 /\ At(line, CloseAfter(line, open(i)) + 1) = "=>"}
  IN  IF hits = {} THEN <<>> ELSE <<line[Leftmost(hits) + 1]>>

\* /(\w+)\s*\([^)]*\)\s*{/
CallBlockName(line) ==
  LET hits == {i \in 1..Len(line) :
                 /\ Word(line[i])
                 /\ CloseAfter(line, i + 1) # 0
                 /\ At(line, CloseAfter(line, i + 1) + 1) = "{"}
  IN  IF hits = {} THEN <<>> ELSE <<line[Leftmost(hits)]>>

\* functionPatterns (136-143), in order.
FunctionPatterns(line) ==
  << KeywordName(line, "function", TRUE),
     ArrowName(line),
     KeywordName(line, "function", FALSE),
     CallBlockName(line),
     KeywordName(line, "def", TRUE),
     KeywordName(line, "func", TRUE) >>

\* The inner loop (146-151): match[1] of the first pattern that matches.
MatchLine(line) ==
  LET ks == {k \in 1..6 : FunctionPatterns(line)[k] # <<>>}
  IN  IF ks = {} THEN <<>> ELSE FunctionPatterns(line)[Leftmost(ks)]

Returned(value) == [threw |-> <<>>, value |-> value]

\* The search goes on to the first line of the file.
RECURSIVE LookBackUnbounded(_, _, _)
LookBackUnbounded(lines, lineNumber, i) ==
  IF i < 0 THEN Returned(<<>>)
  ELSE IF i + 1 > Len(lines)
  THEN [threw |-> <<"TypeError: Cannot read properties of undefined (reading 'match')">>,
        value |-> <<>>]
  ELSE IF MatchLine(lines[i + 1]) # <<>>
  THEN Returned(<<[name |-> MatchLine(lines[i + 1])[1], line |-> i + 1]>>)
  ELSE LookBackUnbounded(lines, lineNumber, i - 1)

\* The outer loop (145-154) from index i down; lines[i] is undefined past the
\* end of the array and reading .match of it throws.
RECURSIVE LookBack(_, _, _)
LookBack(lines, lineNumber, i) ==
  IF i < 0 THEN Returned(<<>>)
  ELSE IF i + 1 > Len(lines)
  THEN [threw |-> <<"TypeError: Cannot read properties of undefined (reading 'match')">>,
        value |-> <<>>]
  ELSE IF MatchLine(lines[i + 1]) # <<>>
  THEN Returned(<<[name |-> MatchLine(lines[i + 1])[1], line |-> i + 1]>>)
  ELSE IF lineNumber - i > LookbackLimit THEN Returned(<<>>)
  ELSE LookBack(lines, lineNumber, i - 1)

findFunctionAtLine(file, lineNumber) ==
  LookBack(SplitLines(file), lineNumber, lineNumber - 1)

(***************************************************************************)
(* GitWhy.explain, lines 211-229: the brace scan for the end of a function.*)
(* The state of the scan is [braceCount, started, targetEndLine].          *)
(***************************************************************************)
\* The inner loop (216-227) over the characters of line lineNo, from the k-th.
RECURSIVE ScanChars(_, _, _, _)
ScanChars(st, chars, k, lineNo) ==
  IF k > Len(chars) THEN st
  ELSE IF chars[k] = "{"
  THEN ScanChars([st EXCEPT !.braceCount = @ + 1, !.started = TRUE], chars, k + 1, lineNo)
  ELSE IF chars[k] = "}"
  THEN IF st.started /\ st.braceCount - 1 = 0
       THEN [st EXCEPT !.braceCount = 0, !.targetEndLine = <<lineNo>>]
       ELSE ScanChars([st EXCEPT !.braceCount = @ - 1], chars, k + 1, lineNo)
  ELSE ScanChars(st, chars, k + 1, lineNo)

\* The outer loop (215-229) from line i on.
RECURSIVE ScanLines(_, _, _)
ScanLines(st, lines, i) ==
  IF i > Len(lines) THEN st
  ELSE LET after == ScanChars(st, lines[i], 1, i)
       IN  IF Truthy(after.targetEndLine) THEN after
           ELSE ScanLines(after, lines, i + 1)

BraceScan(file, startLine, endLine) ==
  ScanLines([braceCount |-> 0, started |-> FALSE, targetEndLine |-> endLine],
            SplitLines(file), startLine).targetEndLine

(***************************************************************************)
(* bin/git-why.js:42-72: parsing one command-line target.  A target is     *)
(* [filePath, after]: `after` is <<>> when the target holds no colon and   *)
(* <<text>> otherwise, text being the words between the first colon and    *)
(* the next.                                                               *)
(***************************************************************************)
\* The words of `text` before its first "-" word.
RECURSIVE BeforeDash(_)
BeforeDash(text) ==
  IF text = <<>> \/ Head(text) = "-" THEN <<>>
  ELSE <<Head(text)>> \o BeforeDash(Tail(text))

\* The words of `text` after its first "-" word.
RECURSIVE AfterDash(_)
AfterDash(text) ==
  IF text = <<>> THEN <<>>
  ELSE IF Head(text) = "-" THEN Tail(text)
  ELSE AfterDash(Tail(text))

\* parts[1].includes('-')
IncludesDash(text) == \E i \in 1..Len(text) : text[i] = "-"

Parsed(filePath, lineNumber, endLine) ==
  [threw |-> <<>>, filePath |-> filePath, lineNumber |-> lineNumber, endLine |-> endLine]

Threw(message) ==
  [threw |-> <<message>>, filePath |-> "", lineNumber |-> <<>>, endLine |-> <<>>]

\* The line numbers a target names, as parseInt reads them (lines 52, 53, 62).
NamedLines(target) ==
  IF target.after = <<>> THEN Parsed(target.filePath, <<>>, <<>>)
  ELSE LET text == target.after[1]
       IN  IF IncludesDash(text)
           THEN Parsed(target.filePath, parseInt(BeforeDash(text)),
                       parseInt(BeforeDash(AfterDash(text))))
           ELSE Parsed(target.filePath, parseInt(text), <<>>)

ParseTarget(target) ==
  IF target.after = <<>> THEN Parsed(target.filePath, <<>>, <<>>)
  ELSE LET text == target.after[1]
       IN  IF IncludesDash(text)
           THEN LET lineNumber == parseInt(BeforeDash(text))
                    endLine == parseInt(BeforeDash(AfterDash(text)))
                IN  IF isNaN(lineNumber) \/ isNaN(endLine)
                    THEN Threw("Invalid line range")
                    ELSE IF lineNumber[1] >= endLine[1]
                    THEN Threw("Invalid range: start line must be less than end line")
                    ELSE Parsed(target.filePath, lineNumber, endLine)
           ELSE LET lineNumber == parseInt(text)
                IN  IF isNaN(lineNumber)
                    THEN Threw("Invalid line number")
                    ELSE Parsed(target.filePath, lineNumber, <<>>)

\* targets.map(...): the array of parsed targets; the first target that throws
\* ends the map.
MapTargets(ts) == [i \in 1..Len(ts) |-> ParseTarget(ts[i])]

FirstThrow(ps) ==
  LET bad == {i \in 1..Len(ps) : ps[i].threw # <<>>}
  IN  IF bad = {} THEN <<>>
      ELSE ps[CHOOSE i \in bad : \A j \in bad : i <= j].threw

(***************************************************************************)
(* The inputs: command lines, options and working directories.             *)
(***************************************************************************)
Selectors ==
  { <<>>,
    << <<"2">> >>,
    << <<"0">> >>,
    << <<"99">> >>,
    << <<"2", "-", "4">> >>,
    << <<"4", "-", "2">> >>,
    << <<"abc">> >> }

Targets == [filePath : {"a.js"}, after : Selectors]

FunctionNames == {"one", "hello", "broken", "nope"}

Options ==
  [function : {<<>>} \cup {<<f>> : f \in FunctionNames},
   json : BOOLEAN,
   color : BOOLEAN]

\* Working directories: whether it is a repository, whether the file exists,
\* whether it is in the index (never outside a repository), the file's
\* content, the commits whose objects are missing, the credentials of the
\* environment and whether the API answers.
World(isGitRepo, exists, tracked, file, missing, anthropic, openai, up) ==
  [isGitRepo |-> isGitRepo, exists |-> exists, tracked |-> tracked, file |-> file,
   missing |-> missing, ANTHROPIC_API_KEY |-> anthropic, OPENAI_API_KEY |-> openai,
   apiUp |-> up]

Worlds ==
  { World(FALSE, FALSE, FALSE, "a", {}, TRUE, FALSE, TRUE),
    World(FALSE, TRUE, FALSE, "a", {}, TRUE, FALSE, TRUE),
    World(TRUE, FALSE, FALSE, "a", {}, TRUE, FALSE, TRUE),
    World(TRUE, TRUE, FALSE, "a", {}, TRUE, FALSE, TRUE),
    World(TRUE, TRUE, TRUE, "empty", {}, TRUE, FALSE, TRUE),
    World(TRUE, TRUE, TRUE, "a", {}, TRUE, FALSE, TRUE),
    World(TRUE, TRUE, TRUE, "a", {"c3"}, TRUE, FALSE, TRUE),
    World(TRUE, TRUE, TRUE, "a", {}, FALSE, FALSE, TRUE),
    World(TRUE, TRUE, TRUE, "a", {}, FALSE, TRUE, TRUE),
    World(TRUE, TRUE, TRUE, "a", {}, TRUE, FALSE, FALSE) }

(***************************************************************************)
(* The initial state: the process has been started with a command line in  *)
(* a working directory.                                                    *)
(***************************************************************************)
Idle ==
  /\ parsedTargets = <<>>
  /\ index = 0
  /\ results = <<>>
  /\ spinner = 0
  /\ exitCode = <<>>
  /\ stderr = <<>>
  /\ displayed = <<>>
  /\ targetLine = <<>>
  /\ targetEndLine = <<>>
  /\ commits = <<>>
  /\ commitDetails = <<>>
  /\ context = <<>>
  /\ prompt = <<>>
  /\ result = <<>>
  /\ error = <<>>
  /\ calls = <<>>
  /\ processed = <<>>
  /\ unique = <<>>

Init ==
  /\ pc = "action"
  /\ targets \in SeqsUpTo(Targets, MaxTargets)
  /\ options \in Options
  /\ repo \in Worlds
  /\ args = <<>>
  /\ output = <<>>
  /\ Idle

Call(op, arg) == [op |-> op, arg |-> arg]

\* process.exit(code) after console.error(message).
ExitWith(message, code) ==
  /\ stderr' = Append(stderr, message)
  /\ exitCode' = <<code>>
  /\ pc' = "exit"

(***************************************************************************)
(* bin/git-why.js:24-33: no target given.                                  *)
(***************************************************************************)
NoTarget ==
  /\ pc = "action"
  /\ Len(targets) = 0
  /\ ExitWith("Error: No target specified", 1)
  /\ UNCHANGED <<inputVars, runVars, parsedTargets, index, results, spinner,
                 displayed, processed>>

(***************************************************************************)
(* bin/git-why.js:35-79: the targets are parsed and the function option is *)
(* validated; an Error thrown here reaches the outer catch (160-163).      *)
(***************************************************************************)
\* The function option is refused with several targets: never.
FunctionWithMultipleAllowed(opts, n) == FALSE

\* Line 75: options.function && parsedTargets.length > 1
FunctionWithMultiple(opts, n) == opts.function # <<>> /\ n > 1

ParseTargets ==
  /\ pc = "action"
  /\ Len(targets) > 0
  /\ LET ps == MapTargets(targets)
     IN  IF FirstThrow(ps) # <<>>
         THEN /\ ExitWith(FirstThrow(ps)[1], 1)
              /\ UNCHANGED <<parsedTargets, index>>
         ELSE IF FunctionWithMultiple(options, Len(ps))
         THEN /\ ExitWith("--function option cannot be used with multiple files", 1)
              /\ UNCHANGED <<parsedTargets, index>>
         ELSE /\ parsedTargets' = ps
              /\ index' = 1
              /\ pc' = "loop"
              /\ UNCHANGED <<stderr, exitCode>>
  /\ UNCHANGED <<inputVars, runVars, results, spinner, displayed, processed>>

(***************************************************************************)
(* bin/git-why.js:81-101: the loop takes the next target, starts the       *)
(* spinner unless in JSON mode, and calls explain.                         *)
(***************************************************************************)
\* The details fetched for the targets before are kept for the next one.
StartTargetKeepsDetails ==
  /\ pc = "loop"
  /\ index <= Len(parsedTargets)
  /\ spinner' = IF ~options.json THEN spinner + 1 ELSE spinner
  /\ processed' = Append(processed, index)
  /\ targetLine' = <<>>
  /\ targetEndLine' = <<>>
  /\ commits' = <<>>
  /\ context' = <<>>
  /\ prompt' = <<>>
  /\ result' = <<>>
  /\ error' = <<>>
  /\ calls' = <<>>
  /\ output' = <<>>
  /\ unique' = <<>>
  /\ pc' = "Validating"
  /\ UNCHANGED <<inputVars, parsedTargets, index, results, exitCode, stderr, displayed,
                 commitDetails>>

StartTarget ==
  /\ pc = "loop"
  /\ index <= Len(parsedTargets)
  /\ spinner' = IF ~options.json THEN spinner + 1 ELSE spinner
  /\ processed' = Append(processed, index)
  /\ targetLine' = <<>>
  /\ targetEndLine' = <<>>
  /\ commits' = <<>>
  /\ commitDetails' = <<>>
  /\ context' = <<>>
  /\ prompt' = <<>>
  /\ result' = <<>>
  /\ error' = <<>>
  /\ calls' = <<>>
  /\ output' = <<>>
  /\ unique' = <<>>
  /\ pc' = "Validating"
  /\ UNCHANGED <<inputVars, parsedTargets, index, results, exitCode, stderr, displayed>>

\* The Error is noted and the run goes on to build the code context.
ThrowAndGoOn(message) ==
  /\ error' = <<message>>
  /\ pc' = "BuildingContext"

\* throw new Error(message) inside explain.
Throw(message) ==
  /\ error' = <<message>>
  /\ pc' = "Failed"

(***************************************************************************)
(* GitWhy.explain, lines 188-206: validation.                              *)
(***************************************************************************)
\* The repository is probed before the file is looked for.
ValidationErrorRepoFirst(w) ==
  IF ~w.isGitRepo THEN <<"Not a git repository. Run git init first.">>
  ELSE IF ~w.exists THEN <<"File not found">>
  ELSE IF ~w.tracked THEN <<"File not tracked by git">>
  ELSE <<>>

\* The repository is not probed at all.
ValidationErrorNoRepoCheck(w) ==
  IF ~w.exists THEN <<"File not found">>
  ELSE IF ~w.tracked THEN <<"File not tracked by git">>
  ELSE <<>>

\* Lines 191-202: the Error thrown by the three checks, <<>> when all pass.
ValidationError(w) ==
  IF ~w.exists THEN <<"File not found">>
  ELSE IF ~w.isGitRepo THEN <<"Not a git repository. Run git init first.">>
  ELSE IF ~w.tracked THEN <<"File not tracked by git">>
  ELSE <<>>

\* The probes made up to the check that threw `e`.
ValidationCalls(e) ==
  IF e = <<"File not found">> THEN <<Call("existsSync", <<>>)>>
  ELSE IF e = <<"Not a git repository. Run git init first.">>
  THEN <<Call("existsSync", <<>>), Call("isGitRepo", <<>>)>>
  ELSE <<Call("existsSync", <<>>), Call("isGitRepo", <<>>), Call("isFileTracked", <<>>)>>

Validate ==
  /\ pc = "Validating"
  /\ calls' = calls \o ValidationCalls(ValidationError(repo))
  /\ IF ValidationError(repo) # <<>>
     THEN /\ Throw(ValidationError(repo)[1])
          /\ UNCHANGED <<targetLine, targetEndLine>>
     ELSE /\ targetLine' = parsedTargets[index].lineNumber
          /\ targetEndLine' = parsedTargets[index].endLine
          /\ pc' = "ResolvingTarget"
          /\ UNCHANGED error
  /\ UNCHANGED <<inputVars, cliVars, commits, commitDetails, context, prompt, result,
                 output, unique>>

(***************************************************************************)
(* GitWhy.explain, lines 208-230: a function name is resolved to its       *)
(* definition line and, by the brace scan, to its end line.                *)
(***************************************************************************)
ResolveTarget ==
  /\ pc = "ResolvingTarget"
  /\ IF options.function # <<>>
     THEN LET found == findFunction(Fixture(repo.file), options.function[1])
          IN  /\ calls' = Append(calls, Call("findFunction", options.function))
              /\ IF found = <<>>
                 THEN /\ Throw("Function not found")
                      /\ UNCHANGED <<targetLine, targetEndLine>>
                 ELSE /\ targetLine' = found
                      /\ targetEndLine' =
                           BraceScan(Fixture(repo.file), found[1], targetEndLine)
                      /\ pc' = "ExtractingHistory"
                      /\ UNCHANGED error
     ELSE /\ pc' = "ExtractingHistory"
          /\ UNCHANGED <<targetLine, targetEndLine, calls, error>>
  /\ UNCHANGED <<inputVars, cliVars, commits, commitDetails, context, prompt, result,
                 output, unique>>

(***************************************************************************)
(* GitWhy.explain, lines 232-237, with getBlame (41-54).                   *)
(***************************************************************************)
\* An empty history is handed on to the detail fetching.
NoHistoryAccepted(cs) == FALSE

\* Line 235: commits.length === 0
NoHistory(cs) == Len(cs) = 0

ExtractHistory ==
  /\ pc = "ExtractingHistory"
  /\ LET range == BlameRange(targetLine, targetEndLine)
         file == Fixture(repo.file)
     IN  /\ calls' = Append(calls, Call("getBlame", range))
         /\ IF GitBlameFails(file, range)
            THEN /\ Throw("Failed to get git blame")
                 /\ UNCHANGED <<commits, output, unique>>
            ELSE /\ output' = GitBlame(file, range)
                 /\ unique' = parseBlameOutput(output')
                 /\ commits' = unique'
                 /\ IF NoHistory(commits')
                    THEN Throw("No git history found for this code")
                    ELSE pc' = "FetchingDetails" /\ UNCHANGED error
  /\ UNCHANGED <<inputVars, cliVars, targetLine, targetEndLine, commitDetails, context,
                 prompt, result>>

(***************************************************************************)
(* GitWhy.explain, lines 239-247: full details are fetched for the first   *)
(* commits, one call of getCommitDetails per step of the map.              *)
(***************************************************************************)
RelevantLimit == 5

NoLimit(cs) == cs

\* commits.slice(0, 5)
RelevantCommits(cs) == Slice(cs, 0, RelevantLimit)

\* { ...c, ...details }
Merge(c, details) ==
  [hash |-> c.hash, author |-> c.author, timestamp |-> c.timestamp,
   summary |-> c.summary, message |-> details.message, diff |-> details.diff,
   files |-> details.files]

\* A commit whose object is missing yields details all the same.
CommitDetailsNeverThrow(h, w) == <<getCommitDetails(h)>>

\* getCommitDetails (99-109) in the working directory w: <<details>>, or <<>>
\* when a git command fails and the Error of line 107 is thrown.
CommitDetails(h, w) == IF h \in w.missing THEN <<>> ELSE <<getCommitDetails(h)>>

FetchDetail ==
  /\ pc = "FetchingDetails"
  /\ LET relevantCommits == RelevantCommits(commits)
         c == relevantCommits[Len(commitDetails) + 1]
     IN  /\ calls' = Append(calls, Call("getCommitDetails", c.hash))
         /\ IF CommitDetails(c.hash[1], repo) = <<>>
            THEN /\ Throw("Failed to get commit details")
                 /\ UNCHANGED commitDetails
            ELSE /\ commitDetails' =
                      Append(commitDetails, Merge(c, CommitDetails(c.hash[1], repo)[1]))
                 /\ pc' = IF Len(commitDetails') = Len(relevantCommits)
                          THEN "BuildingContext" ELSE "FetchingDetails"
                 /\ UNCHANGED error
  /\ UNCHANGED <<inputVars, cliVars, targetLine, targetEndLine, commits, context, prompt,
                 result, output, unique>>

(***************************************************************************)
(* GitWhy.explain, lines 249-250: the code context.                        *)
(***************************************************************************)
\* The context is always taken around the first line.
ContextLineFirst(line) == 1

\* Line 250: targetLine || 1
ContextLine(line) == IF Truthy(line) THEN line[1] ELSE 1

BuildContext ==
  /\ pc = "BuildingContext"
  /\ LET line == ContextLine(targetLine)
     IN  /\ context' = <<getCodeContext(Fixture(repo.file), line, ContextLines)>>
         /\ calls' = Append(calls, Call("getCodeContext", <<line>>))
  /\ pc' = "CallingAI"
  /\ UNCHANGED <<inputVars, cliVars, targetLine, targetEndLine, commits, commitDetails,
                 prompt, result, error, output, unique>>

(***************************************************************************)
(* GitWhy.buildPrompt (lib/git-why.js:311-355).                            *)
(***************************************************************************)
DiffLimit == 100

\* new Date(c.timestamp * 1000).toISOString() throws a RangeError on NaN.
InvalidDate(c) == c.timestamp = <<>>

PromptTarget(analysisContext) ==
  IF analysisContext.functionName # <<>>
  THEN <<"function", analysisContext.functionName[1]>>
  ELSE IF Truthy(analysisContext.lineNumber)
  THEN <<"line", analysisContext.lineNumber[1]>>
  ELSE <<"this code">>

\* The whole diff of every commit is put in the prompt.
buildPromptFullDiff(analysisContext) ==
  [file |-> analysisContext.file,
   target |-> PromptTarget(analysisContext),
   code |-> analysisContext.code,
   commitInfo |-> [i \in 1..Len(analysisContext.commits) |->
                    LET c == analysisContext.commits[i]
                    IN  [hash |-> c.hash, author |-> c.author, date |-> c.timestamp,
                         message |-> c.message, diff |-> c.diff]]]

buildPrompt(analysisContext) ==
  [file |-> analysisContext.file,
   target |-> PromptTarget(analysisContext),
   code |-> analysisContext.code,
   commitInfo |-> [i \in 1..Len(analysisContext.commits) |->
                    LET c == analysisContext.commits[i]
                    IN  [hash |-> c.hash, author |-> c.author, date |-> c.timestamp,
                         message |-> c.message,
                         diff |-> Slice(c.diff, 0, DiffLimit)]]]

(***************************************************************************)
(* GitWhy.explain, lines 252-268, with callAI (274-306).                   *)
(***************************************************************************)
AnalysisContext ==
  [file |-> parsedTargets[index].filePath,
   lineNumber |-> targetLine,
   functionName |-> options.function,
   code |-> context[1].code,
   commits |-> commitDetails]

\* The credentials are not looked at.
ApiKeyErrorNone(w) == <<>>

\* callAI, lines 275-286: the Error thrown for the credentials of the
\* environment, <<>> when ANTHROPIC_API_KEY is set.
ApiKeyError(w) ==
  IF ~w.ANTHROPIC_API_KEY /\ ~w.OPENAI_API_KEY THEN <<"No API key found">>
  ELSE IF ~w.ANTHROPIC_API_KEY THEN <<"Currently only ANTHROPIC_API_KEY is supported">>
  ELSE <<>>

CallAI ==
  /\ pc = "CallingAI"
  /\ IF ApiKeyError(repo) # <<>>
     THEN /\ Throw(ApiKeyError(repo)[1])
          /\ calls' = Append(calls, Call("callAI", <<>>))
          /\ UNCHANGED <<prompt, result>>
     ELSE IF \E i \in 1..Len(commitDetails) : InvalidDate(commitDetails[i])
     THEN /\ Throw("RangeError: Invalid time value")
          /\ calls' = Append(calls, Call("callAI", <<>>))
          /\ UNCHANGED <<prompt, result>>
     ELSE /\ prompt' = <<buildPrompt(AnalysisContext)>>
          /\ calls' = calls \o <<Call("callAI", <<>>), Call("messages.create", <<>>)>>
          /\ IF ~repo.apiUp
             THEN /\ Throw("AI API call failed")
                  /\ UNCHANGED result
             ELSE /\ result' = <<[context |-> AnalysisContext,
                                  explanation |-> "explanation",
                                  commits |-> commitDetails]>>
                  /\ pc' = "Ready"
                  /\ UNCHANGED error
  /\ UNCHANGED <<inputVars, cliVars, targetLine, targetEndLine, commits, commitDetails,
                 context, output, unique>>

(***************************************************************************)
(* bin/git-why.js:103-109: explain returned; the spinner is cleared and    *)
(* the result is kept.                                                     *)
(***************************************************************************)
\* The timer is left running.
NotCleared == spinner

\* clearInterval(spinner) when a timer was started for this target.
Cleared == IF ~options.json THEN spinner - 1 ELSE spinner

TargetDone ==
  /\ pc = "Ready"
  /\ spinner' = Cleared
  /\ results' = Append(results, [filePath |-> parsedTargets[index].filePath,
                                  lineNumber |-> parsedTargets[index].lineNumber,
                                  endLine |-> parsedTargets[index].endLine,
                                  result |-> result[1]])
  /\ index' = index + 1
  /\ pc' = "loop"
  /\ UNCHANGED <<inputVars, runVars, parsedTargets, exitCode, stderr, displayed,
                 processed>>

(***************************************************************************)
(* bin/git-why.js:110-123: explain threw.  With several targets the error  *)
(* is printed and the loop goes on; with one it is thrown again and        *)
(* reaches the outer catch (160-163).                                      *)
(***************************************************************************)
\* parsedTargets.length > 1
ContinuesAfterError(n) == n > 1

TargetFailed ==
  /\ pc = "Failed"
  /\ spinner' = Cleared
  /\ IF ContinuesAfterError(Len(parsedTargets))
     THEN /\ stderr' = Append(stderr, error[1])
          /\ index' = index + 1
          /\ pc' = "loop"
          /\ UNCHANGED exitCode
     ELSE /\ ExitWith(error[1], 1)
          /\ UNCHANGED index
  /\ UNCHANGED <<inputVars, runVars, parsedTargets, results, displayed, processed>>

(***************************************************************************)
(* bin/git-why.js:126-158, with formatOutput (lib/git-why.js:360-402): the *)
(* results are printed.  Without colours `c` is the function (x) => x, on  *)
(* which c.magenta and c.blue are undefined: reading .bold of them throws  *)
(* a TypeError, caught by the outer catch.                                 *)
(***************************************************************************)
\* The text printed for one result.
Shown(r) ==
  [file |-> r.filePath, lineNumber |-> r.lineNumber, endLine |-> r.endLine,
   explanation |-> r.result.explanation]

Display ==
  /\ pc = "loop"
  /\ index > Len(parsedTargets)
  /\ IF Len(results) = 0
     THEN /\ ExitWith("No results to display", 1)
          /\ UNCHANGED displayed
     ELSE IF options.json
     THEN IF \E i \in 1..Len(results) :
               \E k \in 1..Len(results[i].result.commits) :
                 InvalidDate(results[i].result.commits[k])
          THEN /\ ExitWith("RangeError: Invalid time value", 1)
               /\ UNCHANGED displayed
          ELSE /\ displayed' = [i \in 1..Len(results) |-> Shown(results[i])]
               /\ exitCode' = <<0>>
               /\ pc' = "exit"
               /\ UNCHANGED stderr
     ELSE IF ~options.color
     THEN /\ ExitWith("TypeError: Cannot read properties of undefined (reading 'bold')", 1)
          /\ UNCHANGED displayed
     ELSE /\ displayed' = [i \in 1..Len(results) |-> Shown(results[i])]
          /\ exitCode' = <<0>>
          /\ pc' = "exit"
          /\ UNCHANGED stderr
  /\ UNCHANGED <<inputVars, runVars, parsedTargets, index, results, spinner, processed>>

Next ==
  \/ NoTarget
  \/ ParseTargets
  \/ StartTarget
  \/ Validate
  \/ ResolveTarget
  \/ ExtractHistory
  \/ FetchDetail
  \/ BuildContext
  \/ CallAI
  \/ TargetDone
  \/ TargetFailed
  \/ Display

Spec == Init /\ [][Next]_vars

(***************************************************************************)
(* parseBlameOutput on its own: any text may be handed to it.              *)
(***************************************************************************)
BlameLines ==
  { <<"c1", "1">>,
    <<"c2", "1">>,
    <<"author", "Alice">>,
    <<"author", "Bob", "B">>,
    <<"author-mail", "<x@y>">>,
    <<"author-time", "100">>,
    <<"author-time", "soon">>,
    <<"summary", "Fix">>,
    <<"\t", "author", "x">>,
    <<>> }

InitParse ==
  /\ pc = "parse"
  /\ output \in SeqsUpTo(BlameLines, MaxOutputLines)
  /\ targets = <<>>
  /\ options = [function |-> <<>>, json |-> FALSE, color |-> TRUE]
  /\ repo = World(TRUE, TRUE, TRUE, "a", {}, TRUE, FALSE, TRUE)
  /\ args = <<>>
  /\ Idle

ParseOutput ==
  /\ pc = "parse"
  /\ unique' = parseBlameOutput(output)
  /\ pc' = "parsed"
  /\ UNCHANGED <<inputVars, cliVars, targetLine, targetEndLine, commits, commitDetails,
                 context, prompt, result, error, calls, output>>

SpecParse == InitParse /\ [][ParseOutput]_vars

(***************************************************************************)
(* getCodeContext on its own: any file, any line number, any radius.  A    *)
(* file is a sequence of at most MaxFileLines lines, each ended by a       *)
(* newline; the line numbers run from below 1 to beyond the last line.     *)
(***************************************************************************)
TextLines == { <<"a">>, <<"b", "c">>, <<>> }

\* The file whose lines are ls; every line is attributed to one commit.
FileOf(ls) == [lines |-> ls, blame |-> [i \in 1..Len(ls) |-> "c1"]]

LineNumbers == (0 - MaxRadius)..(MaxFileLines + MaxRadius + 2)

Radii == (0 - 2)..MaxRadius

InitContext ==
  /\ pc = "call"
  /\ args \in {<<FileOf(ls), n, r>> :
                 ls \in SeqsUpTo(TextLines, MaxFileLines), n \in LineNumbers, r \in Radii}
  /\ targets = <<>>
  /\ options = [function |-> <<>>, json |-> FALSE, color |-> TRUE]
  /\ repo = World(TRUE, TRUE, TRUE, "a", {}, TRUE, FALSE, TRUE)
  /\ output = <<>>
  /\ Idle

GetCodeContext ==
  /\ pc = "call"
  /\ context' = <<getCodeContext(args[1], args[2], args[3])>>
  /\ pc' = "returned"
  /\ UNCHANGED <<inputVars, cliVars, targetLine, targetEndLine, commits, commitDetails,
                 prompt, result, error, calls, output, unique>>

SpecContext == InitContext /\ [][GetCodeContext]_vars

(***************************************************************************)
(* findFunction on its own: any file of declarations in the idioms the     *)
(* patterns know and of other lines, any name, any path.                   *)
(***************************************************************************)
DeclarationLines ==
  { <<"function", "hello", "(", ")", "{">>,
    <<"const", "hello", "=", "(", ")", "=>", "1">>,
    <<"hello", ":", "function", "(", ")", "{">>,
    <<"def", "hello", "(", ")", ":">>,
    <<"func", "hello", "(", ")", "{">>,
    <<"function", "other", "(", ")", "{">>,
    <<"return", "hello", "(", ")">> }

InitFind ==
  /\ pc = "call"
  /\ args \in {<<path, name, FileOf(ls)>> :
                 path \in {"a.js", "lib/b.js"},
                 name \in {"hello", "other", "doesNotExist"},
                 ls \in SeqsUpTo(DeclarationLines, MaxFileLines)}
  /\ targets = <<>>
  /\ options = [function |-> <<>>, json |-> FALSE, color |-> TRUE]
  /\ repo = World(TRUE, TRUE, TRUE, "a", {}, TRUE, FALSE, TRUE)
  /\ output = <<>>
  /\ Idle

FindFunction ==
  /\ pc = "call"
  /\ LET found == findFunction(args[3], args[2])
     IN  IF found = <<>>
         THEN /\ Throw(NotFoundError(args[2], args[1]))
              /\ UNCHANGED targetLine
         ELSE /\ targetLine' = found
              /\ pc' = "returned"
              /\ UNCHANGED error
  /\ UNCHANGED <<inputVars, cliVars, targetEndLine, commits, commitDetails, context,
                 prompt, result, calls, output, unique>>

SpecFind == InitFind /\ [][FindFunction]_vars

(***************************************************************************)
(* The brace scan of explain (211-229) on its own: any file of lines of    *)
(* braces and other characters, started at any of its lines, no end line   *)
(* given.                                                                  *)
(***************************************************************************)
BraceLines ==
  { <<>>, <<"x">>, <<"{">>, <<"}">>, <<"{", "}">>, <<"}", "{">>,
    <<"{", "{">>, <<"}", "}">> }

InitScan ==
  /\ pc = "call"
  /\ args \in {<<FileOf(ls), n>> :
                 ls \in SeqsUpTo(BraceLines, MaxFileLines), n \in 1..MaxFileLines}
  /\ args[2] <= Len(args[1].lines)
  /\ targets = <<>>
  /\ options = [function |-> <<>>, json |-> FALSE, color |-> TRUE]
  /\ repo = World(TRUE, TRUE, TRUE, "a", {}, TRUE, FALSE, TRUE)
  /\ output = <<>>
  /\ Idle

ScanBraces ==
  /\ pc = "call"
  /\ targetLine' = <<args[2]>>
  /\ targetEndLine' = BraceScan(args[1], args[2], <<>>)
  /\ pc' = "returned"
  /\ UNCHANGED <<inputVars, cliVars, commits, commitDetails, context, prompt, result,
                 error, calls, output, unique>>

SpecScan == InitScan /\ [][ScanBraces]_vars

(***************************************************************************)
(* findFunctionAtLine on its own.  The files are short ones and ones long  *)
(* enough for the lookback limit to matter: lines that match no pattern,   *)
(* with no declaration, one declaration, or two on adjacent lines.         *)
(***************************************************************************)
LongFileSizes == (0..2) \cup ((MaxLongFile - 2)..MaxLongFile)

\* The file of n lines whose declarations are on the lines of D.
LongFile(n, D) ==
  FileOf([i \in 1..n |->
            IF i \notin D THEN <<"x", "=", "1">>
            ELSE IF i + 1 \in D THEN <<"function", "hello", "(", ")", "{">>
            ELSE <<"const", "other", "=", "(", ")", "=>", "1">>])

InitAtLine ==
  /\ pc = "call"
  /\ args \in {<<LongFile(n, D), l>> :
                 n \in LongFileSizes,
                 D \in {{}} \cup {{p} : p \in 1..MaxLongFile}
                           \cup {{p, p + 1} : p \in 1..MaxLongFile},
                 l \in 0..(MaxLongFile + 3)}
  /\ args[2] <= Len(args[1].lines) + 3
  /\ targets = <<>>
  /\ options = [function |-> <<>>, json |-> FALSE, color |-> TRUE]
  /\ repo = World(TRUE, TRUE, TRUE, "a", {}, TRUE, FALSE, TRUE)
  /\ output = <<>>
  /\ Idle

FindFunctionAtLine ==
  /\ pc = "call"
  /\ LET r == findFunctionAtLine(args[1], args[2])
     IN  IF r.threw # <<>>
         THEN /\ Throw(r.threw[1])
              /\ UNCHANGED result
         ELSE /\ result' = r.value
              /\ pc' = "returned"
              /\ UNCHANGED error
  /\ UNCHANGED <<inputVars, cliVars, targetLine, targetEndLine, commits, commitDetails,
                 context, prompt, calls, output, unique>>

SpecAtLine == InitAtLine /\ [][FindFunctionAtLine]_vars

(***************************************************************************)
(* Properties of parseBlameOutput, checked under SpecParse.                *)
(***************************************************************************)
HeaderPositions == {i \in 1..Len(output) : IsHeader(output[i])}

\* The header lines whose hash occurs on no earlier header line.
FirstOccurrences ==
  {i \in HeaderPositions :
     \A j \in HeaderPositions : j < i => output[j][1] # output[i][1]}

\* The k-th first occurrence, in the order of the output.
KthFirst(k) ==
  CHOOSE p \in FirstOccurrences :
    Cardinality({q \in FirstOccurrences : q <= p}) = k

\* The lines of the entry that header line p begins: up to the next header.
EntryLines(p) ==
  {i \in (p + 1)..Len(output) : \A q \in HeaderPositions : q > p => i < q}

\* The text after `word` on the last line of entry p that begins with it.
Captured(p, word) ==
  LET at == {i \in EntryLines(p) : Len(output[i]) >= 2 /\ output[i][1] = word}
  IN  IF at = {} THEN <<>>
      ELSE <<Tail(output[CHOOSE i \in at : \A j \in at : j <= i])>>

\* C1: the sequence returned by parseBlameOutput holds no commit hash twice,
\* whatever the text it is given.
C1_NoHashTwice ==
  pc = "parsed" =>
    \A i, j \in 1..Len(unique) : i # j => unique[i].hash # unique[j].hash

\* A text on which the same hash heads two entries has been parsed.
C1_Witness ==
  /\ pc = "parsed"
  /\ \E i, j \in HeaderPositions : i < j /\ output[i][1] = output[j][1]
  /\ Len(unique) >= 1

\* C2: the result of parseBlameOutput is the sequence of the distinct hashes
\* of the header lines in order of first occurrence, and each record carries
\* the author, author-time and summary captured between the first header line
\* of its hash and the next header line.
C2_FirstSeenOrder ==
  pc = "parsed" =>
    /\ Len(unique) = Cardinality(FirstOccurrences)
    /\ \A k \in 1..Len(unique) :
         LET p == KthFirst(k)
         IN  /\ unique[k].hash = <<output[p][1]>>
             /\ unique[k].author = Captured(p, "author")
             /\ unique[k].summary = Captured(p, "summary")
             /\ unique[k].timestamp =
                  IF Captured(p, "author-time") = <<>> THEN <<>>
                  ELSE parseInt(Captured(p, "author-time")[1])

\* Two hashes, the first of which is seen again after the second, with an
\* author captured for the first.
C2_Witness ==
  /\ pc = "parsed"
  /\ Len(unique) = 2
  /\ Cardinality(HeaderPositions) = 3
  /\ unique[1].author # <<>>

(***************************************************************************)
(* Properties of explain and of the command line, checked under Spec.      *)
(***************************************************************************)
OpsOf(cs) == {cs[i].op : i \in 1..Len(cs)}

IsDetailCall(c) == c.op = "getCommitDetails"

\* The hashes getCommitDetails was invoked for, in order of invocation.
FetchedHashes ==
  LET fetches == SelectSeq(calls, IsDetailCall)
  IN  [i \in 1..Len(fetches) |-> fetches[i].arg]

\* The hashes of the first min(5, n) records returned by history extraction.
SelectedHashes ==
  [i \in 1..(IF Len(commits) < 5 THEN Len(commits) ELSE 5) |-> commits[i].hash]

IsPrefix(a, b) == Len(a) <= Len(b) /\ \A i \in 1..Len(a) : a[i] = b[i]

DetailsFetched == pc \in {"BuildingContext", "CallingAI", "Ready"}

\* C3: in any run of explain getCommitDetails is invoked for at most 5
\* commits, for the first min(5, n) of the n records history extraction
\* returned and in their order (all of them once the fetching stage is over),
\* and the commits of the result keep that order.
C3_FirstFiveInOrder ==
  /\ Len(FetchedHashes) <= 5
  /\ IsPrefix(FetchedHashes, SelectedHashes)
  /\ DetailsFetched =>
       /\ FetchedHashes = SelectedHashes
       /\ [i \in 1..Len(commitDetails) |-> commitDetails[i].hash] = SelectedHashes
  /\ result # <<>> =>
       [i \in 1..Len(result[1].commits) |-> result[1].commits[i].hash] = SelectedHashes

\* explain returned for a target whose history holds more than 5 commits.
C3_Witness ==
  /\ pc = "Ready"
  /\ Len(commits) > 5
  /\ Len(result[1].commits) = 5

PipelineOps == {"findFunction", "getBlame", "getCommitDetails", "getCodeContext",
                "callAI", "messages.create"}

Validated == calls # <<>>

\* C4: explain invokes function lookup, history extraction, detail fetching
\* and the AI call only if the file exists, the directory is a repository and
\* the file is tracked; the reason reported is file-not-found first, then
\* not-a-repository, then not-tracked.
C4_ValidationFirst ==
  /\ OpsOf(calls) \cap PipelineOps # {} =>
       repo.exists /\ repo.isGitRepo /\ repo.tracked
  /\ Validated /\ ~repo.exists => error = <<"File not found">>
  /\ Validated /\ repo.exists /\ ~repo.isGitRepo =>
       error = <<"Not a git repository. Run git init first.">>
  /\ Validated /\ repo.exists /\ repo.isGitRepo /\ ~repo.tracked =>
       error = <<"File not tracked by git">>

\* An untracked file in a valid repository was refused as not tracked.
C4_Witness ==
  /\ pc = "Failed"
  /\ repo.exists /\ repo.isGitRepo /\ ~repo.tracked
  /\ error = <<"File not tracked by git">>

\* C5 as stated: outside a repository the run fails with the
\* not-a-repository error whatever else is true of the path.
C5_AnyPathNotARepository ==
  pc = "Failed" /\ ~repo.isGitRepo =>
    error = <<"Not a git repository. Run git init first.">>

\* C5, amended: outside a repository no run of explain gets past validation;
\* it fails with not-a-repository when the file exists on disk, and with
\* file-not-found when it does not.
C5_NotARepository ==
  ~repo.isGitRepo =>
    /\ pc \notin {"ResolvingTarget", "ExtractingHistory", "FetchingDetails",
                  "BuildingContext", "CallingAI", "Ready"}
    /\ pc = "Failed" /\ repo.exists =>
         error = <<"Not a git repository. Run git init first.">>
    /\ pc = "Failed" /\ ~repo.exists => error = <<"File not found">>

\* A run on an existing file outside a repository has failed.
C5_Witness ==
  /\ pc = "Failed"
  /\ ~repo.isGitRepo /\ repo.exists
  /\ error = <<"Not a git repository. Run git init first.">>

\* The target of the current (or last) run of explain.
RunIndex == processed[Len(processed)]

ValidWorld == repo.exists /\ repo.isGitRepo /\ repo.tracked

FileLineCount == Len(Fixture(repo.file).lines)

\* C6 as stated: for an explicit line number greater than the file's line
\* count the run fails with the line-out-of-range error and the blame command
\* is never invoked.
C6_LineOutOfRangeFailsFast ==
  ( /\ Len(processed) > 0
    /\ ValidWorld
    /\ options.function = <<>>
    /\ parsedTargets[RunIndex].lineNumber # <<>>
    /\ parsedTargets[RunIndex].lineNumber[1] > FileLineCount )
  => /\ "getBlame" \notin OpsOf(calls)
     /\ pc # "Ready"
     /\ pc = "Failed" => error = <<"Line number out of range">>

\* The target names a start line below 1, or a start line that is not below
\* its end line.
InvalidRange(target) ==
  LET n == NamedLines(target)
  IN  /\ n.lineNumber # <<>>
      /\ \/ n.lineNumber[1] < 1
         \/ n.endLine # <<>> /\ n.lineNumber[1] >= n.endLine[1]

\* C7 as stated: a line or range target with a start line below 1, or with
\* start >= end, never reaches history extraction; a start line of 0 is
\* rejected.
C7_InvalidRangeRejected ==
  ( /\ Len(processed) > 0
    /\ ValidWorld
    /\ InvalidRange(targets[RunIndex]) )
  => /\ "getBlame" \notin OpsOf(calls)
     /\ pc # "Ready"

\* C8 as stated: getBlame with a start line and no end line attributes the
\* single line startLine, as the inclusive range [startLine, startLine] does.
C8_SingleLine ==
  \A k \in 1..Len(calls) :
    calls[k].op = "getBlame" /\ Len(calls[k].arg) = 1 /\ error = <<>> =>
      output = GitBlame(Fixture(repo.file), <<calls[k].arg[1], calls[k].arg[1]>>)

\* C9 as stated: with more than one target, whatever fails on one target,
\* every target is run through explain exactly once, in argument order.
C9_EveryTargetProcessed ==
  pc = "exit" /\ Len(targets) > 1 /\ options.function = <<>> =>
    processed = [i \in 1..Len(targets) |-> i]

\* C10 as stated: the exit code is 0 when every requested target was
\* analysed, and non-zero when no target was given, when target parsing
\* failed, when the single target failed and when there is no result.
C10_ExitCode ==
  pc = "exit" =>
    /\ Len(targets) > 0 /\ Len(results) = Len(targets) => exitCode = <<0>>
    /\ Len(targets) = 0 => exitCode = <<1>>
    /\ parsedTargets = <<>> => exitCode = <<1>>
    /\ Len(results) = 0 => exitCode = <<1>>

\* C11: when the function option is given together with more than one target
\* the command exits with a non-zero code and explain is invoked for no
\* target.
C11_FunctionWithMultipleTargets ==
  options.function # <<>> /\ Len(targets) > 1 =>
    /\ pc \in {"action", "exit"}
    /\ processed = <<>> /\ calls = <<>> /\ results = <<>>
    /\ pc = "exit" => exitCode = <<1>>

\* Two well-formed targets with the function option were refused.
C11_Witness ==
  /\ pc = "exit"
  /\ options.function # <<>>
  /\ Len(targets) = 2
  /\ stderr = <<"--function option cannot be used with multiple files">>

\* getBlame was called in this run and did not throw.
BlameReturned ==
  "getBlame" \in OpsOf(calls) /\ error # <<"Failed to get git blame">>

\* C12: when history extraction returns an empty sequence explain fails with
\* the no-history error and neither getCommitDetails, getCodeContext nor the
\* AI call is invoked in that run; when it returns a non-empty sequence the
\* run advances to detail fetching.
C12_EmptyHistoryFails ==
  /\ BlameReturned /\ commits = <<>> =>
       /\ error = <<"No git history found for this code">>
       /\ OpsOf(calls) \cap {"getCommitDetails", "getCodeContext", "callAI",
                              "messages.create"} = {}
       /\ pc # "Ready" /\ result = <<>>
  /\ error = <<"No git history found for this code">> => commits = <<>>
  /\ commits # <<>> =>
       pc = "FetchingDetails" \/ "getCommitDetails" \in OpsOf(calls)

\* The blame of a tracked file without content returned no commit.
C12_Witness ==
  /\ pc = "Failed"
  /\ "getBlame" \in OpsOf(calls)
  /\ output = <<>> /\ commits = <<>>
  /\ error = <<"No git history found for this code">>

\* getCommitDetails was invoked in this run for a commit whose object is
\* missing.
FetchFailed == \E i \in 1..Len(FetchedHashes) : FetchedHashes[i][1] \in repo.missing

\* C13: if getCommitDetails fails for one of the selected commits explain
\* fails as a whole with the detail-fetch error: no result is returned, with
\* a partial commit list or otherwise, and the AI call is never made; every
\* record getCommitDetails returned holds all of message, diff and files.
C13_DetailFetchFailureIsFatal ==
  /\ FetchFailed =>
       /\ error = <<"Failed to get commit details">>
       /\ result = <<>> /\ pc # "Ready"
       /\ OpsOf(calls) \cap {"getCodeContext", "callAI", "messages.create"} = {}
       /\ FetchedHashes[Len(FetchedHashes)][1] \in repo.missing
  /\ error = <<"Failed to get commit details">> => FetchFailed
  /\ result # <<>> => Len(result[1].commits) = Len(SelectedHashes)
  /\ \A i \in 1..Len(commitDetails) :
       LET d == getCommitDetails(commitDetails[i].hash[1])
       IN  /\ commitDetails[i].message = d.message
           /\ commitDetails[i].diff = d.diff
           /\ commitDetails[i].files = d.files

\* The third fetch failed after two commits had been fetched.
C13_Witness ==
  /\ pc = "Failed"
  /\ error = <<"Failed to get commit details">>
  /\ Len(commitDetails) = 2
  /\ Len(FetchedHashes) = 3

AICalled == "callAI" \in OpsOf(calls)

\* The operations of the stages that precede the AI call.
EarlierOps == {"existsSync", "isGitRepo", "isFileTracked", "findFunction",
               "getBlame", "getCommitDetails", "getCodeContext"}

\* C14: whenever the AI collaborator fails (no usable credential, or the API
\* call fails) explain fails with that error and returns no result; without
\* any credential a run that got through validation, history extraction,
\* detail fetching and context building fails with the missing-API-key
\* error, and callAI is invoked only after all of those.
C14_AIFailurePropagates ==
  /\ AICalled /\ (~repo.ANTHROPIC_API_KEY \/ ~repo.apiUp) =>
       error # <<>> /\ result = <<>> /\ pc # "Ready"
  /\ AICalled /\ ~repo.ANTHROPIC_API_KEY /\ ~repo.OPENAI_API_KEY =>
       error = <<"No API key found">>
  /\ AICalled /\ ~repo.ANTHROPIC_API_KEY /\ repo.OPENAI_API_KEY =>
       error = <<"Currently only ANTHROPIC_API_KEY is supported">>
  /\ AICalled /\ repo.ANTHROPIC_API_KEY /\ ~repo.apiUp =>
       error = <<"AI API call failed">>
  /\ context # <<>> /\ pc # "CallingAI"
       /\ ~repo.ANTHROPIC_API_KEY /\ ~repo.OPENAI_API_KEY =>
       AICalled /\ error = <<"No API key found">>
  /\ AICalled =>
       /\ ValidWorld
       /\ {"existsSync", "isGitRepo", "isFileTracked", "getBlame",
            "getCommitDetails", "getCodeContext"} \subseteq OpsOf(calls)
       /\ commits # <<>>
       /\ FetchedHashes = SelectedHashes
       /\ Len(commitDetails) = Len(SelectedHashes)
       /\ context # <<>>
       /\ \A i, j \in 1..Len(calls) :
            calls[i].op = "callAI" /\ calls[j].op \in EarlierOps => j < i

\* A run on a tracked file with history failed for want of a credential.
C14_Witness ==
  /\ pc = "Failed"
  /\ ~repo.ANTHROPIC_API_KEY /\ ~repo.OPENAI_API_KEY
  /\ Len(commitDetails) > 0
  /\ error = <<"No API key found">>

\* The diff git show prints for the i-th commit of the bundle.
FetchedDiff(i) == getCommitDetails(commitDetails[i].hash[1]).diff

\* C15: for every commit of the bundle the diff placed in the prompt sent to
\* the AI collaborator has at most 100 lines and is the first 100 lines of
\* the fetched diff, while the diff in the commit records explain returns is
\* the full fetched diff.
C15_DiffTruncatedInPromptOnly ==
  /\ prompt # <<>> =>
       /\ Len(prompt[1].commitInfo) = Len(commitDetails)
       /\ \A i \in 1..Len(commitDetails) :
            LET sent == prompt[1].commitInfo[i].diff
            IN  /\ Len(sent) <= 100
                /\ Len(sent) = Min(100, Len(FetchedDiff(i)))
                /\ \A k \in 1..Len(sent) : sent[k] = FetchedDiff(i)[k]
  /\ result # <<>> =>
       /\ Len(result[1].commits) = Len(commitDetails)
       /\ \A i \in 1..Len(commitDetails) :
            /\ result[1].commits[i].diff = FetchedDiff(i)
            /\ result[1].context.commits[i].diff = FetchedDiff(i)

\* explain returned a commit whose diff of more than 100 lines went into the
\* prompt cut to 100.
C15_Witness ==
  /\ pc = "Ready"
  /\ \E i \in 1..Len(commitDetails) :
       /\ Len(result[1].commits[i].diff) > 100
       /\ Len(prompt[1].commitInfo[i].diff) = 100

(***************************************************************************)
(* Properties of getCodeContext, checked under SpecContext.  The file's    *)
(* line count is the number of elements content.split('\n') yields, the    *)
(* count getCodeContext itself clips to.                                   *)
(***************************************************************************)
FileLines == SplitLines(args[1])

\* The number of lines of a text: none for the empty text, otherwise one
\* more than its newlines.
CountLines(text) ==
  IF text = <<>> THEN 0
  ELSE 1 + Cardinality({i \in 1..Len(text) : text[i] = "\n"})

\* C16: for every file, every integer target line (below 1 and above the
\* line count included) and every radius, the lines getCodeContext reports
\* (startLine through startLine + number of returned lines - 1) lie within
\* [1, fileLineCount].
C16_ContextWithinFile ==
  pc = "returned" =>
    LET n == CountLines(context[1].code)
    IN  n > 0 =>
          /\ 1 <= context[1].startLine
          /\ context[1].startLine + n - 1 <= Len(FileLines)

\* A target line beyond the end of the file with a window that still holds
\* lines of the file.
C16_Witness ==
  /\ pc = "returned"
  /\ args[2] > Len(FileLines)
  /\ CountLines(context[1].code) > 1

\* C17: for 1 <= targetLine <= fileLineCount and radius >= 0 getCodeContext
\* returns the lines max(1, targetLine - radius) to
\* min(fileLineCount, targetLine + radius) joined in order, startLine equal
\* to max(1, targetLine - radius) and targetLine unchanged; the window holds
\* the target line and at most 2 * radius + 1 lines.
C17_ContextWindow ==
  pc = "returned" /\ 1 <= args[2] /\ args[2] <= Len(FileLines) /\ args[3] >= 0 =>
    LET first == IF args[2] - args[3] > 1 THEN args[2] - args[3] ELSE 1
        last == IF args[2] + args[3] < Len(FileLines)
                THEN args[2] + args[3] ELSE Len(FileLines)
    IN  /\ context[1].code = Join(SubSeq(FileLines, first, last))
        /\ context[1].startLine = first
        /\ context[1].targetLine = args[2]
        /\ first <= args[2] /\ args[2] <= last
        /\ last - first + 1 <= 2 * args[3] + 1

\* Target 2 with radius 2 on a file of 4 lines: lines 1 to 4 are returned.
C17_Witness ==
  /\ pc = "returned"
  /\ Len(args[1].lines) = 4 /\ args[2] = 2 /\ args[3] = 2
  /\ context[1].startLine = 1
  /\ context[1].code = Join(args[1].lines)

(***************************************************************************)
(* Properties of findFunction, checked under SpecFind.                     *)
(***************************************************************************)
Reverse(s) == [i \in 1..Len(s) |-> s[Len(s) + 1 - i]]

\* The lines of the file a declaration pattern for the name matches.
DeclarationsOfName == MatchingLines(SplitLines(args[3]), args[2])

\* C18: findFunction returns the smallest line number whose text matches any
\* of the declaration patterns for the name, whatever the order of the
\* patterns, and throws an Error naming the function and the file path if
\* and only if no line matches.
C18_FirstMatchingLine ==
  /\ pc = "returned" =>
       /\ DeclarationsOfName # {}
       /\ targetLine # <<>> /\ targetLine[1] \in DeclarationsOfName
       /\ \A j \in DeclarationsOfName : targetLine[1] <= j
       /\ FindFrom(SplitLines(args[3]), Reverse(Patterns(args[2])), 1) = targetLine
  /\ pc = "Failed" =>
       /\ DeclarationsOfName = {}
       /\ error[1].functionName = args[2] /\ error[1].filePath = args[1]
       /\ FindFrom(SplitLines(args[3]), Reverse(Patterns(args[2])), 1) = <<>>

\* Line 1 is `function hello() {`, a later line declares hello in another
\* idiom, and 1 was returned for "hello".
C18_Witness ==
  /\ pc = "returned"
  /\ args[2] = "hello"
  /\ args[3].lines[1] = <<"function", "hello", "(", ")", "{">>
  /\ Cardinality(DeclarationsOfName) > 1
  /\ targetLine = <<1>>

(***************************************************************************)
(* Properties of the stages of explain, checked under Spec.                *)
(***************************************************************************)
\* C19 as stated: after the resolution of a function name the end line
\* handed to history extraction is absent or not smaller than the
\* definition line, whatever options came with the function name.
C19_EndNotBeforeStart ==
  pc = "ExtractingHistory" /\ options.function # <<>> =>
    \/ targetEndLine = <<>>
    \/ targetEndLine[1] >= targetLine[1]

\* The operations invoked by the current run of explain, in order.
CallOps == [i \in 1..Len(calls) |-> calls[i].op]

\* The operations of a run that gets through every stage.
ExpectedOps ==
  <<"existsSync", "isGitRepo", "isFileTracked">>
    \o (IF options.function # <<>> THEN <<"findFunction">> ELSE <<>>)
    \o <<"getBlame">>
    \o [i \in 1..Len(SelectedHashes) |-> "getCommitDetails"]
    \o <<"getCodeContext", "callAI", "messages.create">>

LastOp == calls[Len(calls)].op

\* The operations of the stage in which the Error e is thrown.
OpsOfFailure(e) ==
  IF e \in {"File not found", "Not a git repository. Run git init first.",
            "File not tracked by git"}
  THEN {"existsSync", "isGitRepo", "isFileTracked"}
  ELSE IF e = "Function not found" THEN {"findFunction"}
  ELSE IF e \in {"Failed to get git blame", "No git history found for this code"}
  THEN {"getBlame"}
  ELSE IF e = "Failed to get commit details" THEN {"getCommitDetails"}
  ELSE {"callAI", "messages.create"}

\* C20: a run of explain goes through Validating, ResolvingTarget,
\* ExtractingHistory, FetchingDetails, BuildingContext and Ready in that
\* order, no stage skipped or repeated; the operation of each stage is
\* invoked at most once (once per selected commit for the detail fetching);
\* once a stage has failed no operation of a later stage is invoked.
C20_StagesInOrder ==
  /\ IsPrefix(CallOps, ExpectedOps)
  /\ pc = "Validating" => calls = <<>>
  /\ pc = "ResolvingTarget" => LastOp = "isFileTracked"
  /\ pc = "ExtractingHistory" => LastOp \in {"isFileTracked", "findFunction"}
  /\ pc = "FetchingDetails" =>
       /\ LastOp \in {"getBlame", "getCommitDetails"}
       /\ Len(FetchedHashes) < Len(SelectedHashes)
  /\ pc = "BuildingContext" =>
       LastOp = "getCommitDetails" /\ FetchedHashes = SelectedHashes
  /\ pc = "CallingAI" => LastOp = "getCodeContext"
  /\ pc = "Ready" => CallOps = ExpectedOps /\ error = <<>> /\ result # <<>>
  /\ result # <<>> => CallOps = ExpectedOps /\ error = <<>>
  /\ error # <<>> =>
       /\ pc \in {"Failed", "loop", "exit"}
       /\ result = <<>>
       /\ LastOp \in OpsOfFailure(error[1])

\* explain returned for a function whose history holds several commits.
C20_Witness ==
  /\ pc = "Ready"
  /\ options.function # <<>>
  /\ Len(SelectedHashes) > 1
  /\ Len(calls) = 8 + Len(SelectedHashes)

\* C21 as stated: when a function name is supplied the bounds passed to
\* history extraction are the definition line findFunction returns and the
\* boundary the brace scan derives from it; a line number or end line given
\* with the name changes neither.
C21_LocatorBoundsOnly ==
  pc = "ExtractingHistory" /\ options.function # <<>> =>
    LET found == findFunction(Fixture(repo.file), options.function[1])
    IN  /\ targetLine = found
        /\ targetEndLine = BraceScan(Fixture(repo.file), found[1], <<>>)

(***************************************************************************)
(* Properties of the brace scan, checked under SpecScan.                   *)
(***************************************************************************)
\* The occurrences of brace b from the start of line args[2] up to the k-th
\* character of line l.
BracesUpTo(b, l, k) ==
  Cardinality({p \in (args[2]..l) \X (1..2) :
                 /\ p[2] <= Len(FileLines[p[1]])
                 /\ FileLines[p[1]][p[2]] = b
                 /\ p[1] < l \/ p[2] <= k})

\* The lines on which an opening brace has been seen and the count of
\* opening minus closing braces is zero.
BalancedLines ==
  {l \in args[2]..Len(FileLines) :
     \E k \in 1..Len(FileLines[l]) :
       BracesUpTo("{", l, k) >= 1 /\ BracesUpTo("{", l, k) = BracesUpTo("}", l, k)}

\* C22 as stated: the brace scan returns as boundary the first line on
\* which, scanning from the start of the definition line, at least one
\* opening brace has been seen and the count of opening minus closing braces
\* is back at zero, and no boundary when there is no such line.
C22_FirstBalancedLine ==
  pc = "returned" =>
    IF BalancedLines = {} THEN targetEndLine = <<>>
    ELSE /\ targetEndLine # <<>>
         /\ targetEndLine[1] \in BalancedLines
         /\ \A l \in BalancedLines : targetEndLine[1] <= l

(***************************************************************************)
(* Further properties of explain and of the command line, checked under    *)
(* Spec.                                                                   *)
(***************************************************************************)
\* C23 as stated: when the brace scan reaches the end of the file without a
\* balanced closure explain does not fail for that reason, the end line
\* stays absent and history is extracted for the single definition line.
C23_UnresolvedIsSingleLine ==
  ( /\ options.function # <<>>
    /\ "getBlame" \in OpsOf(calls)
    /\ targetEndLine = <<>> )
  => /\ error # <<"Failed to get git blame">>
     /\ output = GitBlame(Fixture(repo.file), <<targetLine[1], targetLine[1]>>)

(***************************************************************************)
(* Properties of findFunctionAtLine, checked under SpecAtLine.             *)
(***************************************************************************)
\* The lines of the file that a pattern of findFunctionAtLine matches.
EnclosingCandidates == {l \in 1..Len(FileLines) : MatchLine(FileLines[l]) # <<>>}

\* C24: findFunctionAtLine only returns a match on a line L with
\* lineNumber - 50 <= L <= lineNumber, it returns the match closest to
\* lineNumber in that window, and it returns none when no line of the window
\* matches, even if a line more than 50 lines above the target matches.
C24_BoundedLookback ==
  pc = "returned" =>
    LET window == {l \in EnclosingCandidates : args[2] - 50 <= l /\ l <= args[2]}
    IN  IF window = {} THEN result = <<>>
        ELSE /\ result # <<>>
             /\ result[1].line \in window
             /\ \A l \in window : l <= result[1].line

\* None was returned although a line 51 lines above the target matches.
C24_Witness ==
  /\ pc = "returned"
  /\ result = <<>>
  /\ args[2] - 51 \in EnclosingCandidates

\* C30 as stated: for every lineNumber >= 1, line numbers beyond the end of
\* the file included, findFunctionAtLine returns none or a record with
\* 1 <= line <= lineNumber, and never raises.
C30_NeverRaises ==
  pc # "call" /\ args[2] >= 1 =>
    /\ pc = "returned"
    /\ result # <<>> => 1 <= result[1].line /\ result[1].line <= args[2]

\* The line the target of the current run resolves to: the definition line of
\* the function when a name is given, else the line or range start given with
\* the file, <<>> when the target is the whole file.
ResolvedLine ==
  IF options.function # <<>>
  THEN findFunction(Fixture(repo.file), options.function[1])
  ELSE parsedTargets[RunIndex].lineNumber

\* C25: the code context of explain is built around the resolved target line
\* (the explicit line, the range start or the function's definition line) and
\* around line 1 when the target is the whole file; it is built only after
\* the details of every selected commit have been fetched without failure.
C25_ContextAroundTarget ==
  /\ context # <<>> =>
       /\ Truthy(ResolvedLine) =>
            context[1] = getCodeContext(Fixture(repo.file), ResolvedLine[1], ContextLines)
       /\ ResolvedLine = <<>> =>
            context[1] = getCodeContext(Fixture(repo.file), 1, ContextLines)
       /\ Len(commitDetails) = Len(RelevantCommits(commits))
       /\ Len(commitDetails) >= 1
       /\ \A i \in 1..Len(commitDetails) : commitDetails[i].hash[1] \notin repo.missing
       /\ LET k == CHOOSE i \in 1..Len(calls) : calls[i].op = "getCodeContext"
          IN  /\ Cardinality({i \in 1..(k - 1) : calls[i].op = "getCommitDetails"})
                  = Len(commitDetails)
              /\ \A i \in (k + 1)..Len(calls) : calls[i].op # "getCommitDetails"
  /\ error = <<"Failed to get commit details">> => context = <<>>

\* The context of a range target was built, around the start of the range,
\* after two commits' details were fetched.
C25_Witness ==
  /\ context # <<>>
  /\ options.function = <<>>
  /\ parsedTargets[RunIndex].endLine = <<4>>
  /\ context[1].targetLine = 2
  /\ Len(commitDetails) = 2

\* C26 as stated: the bundle handed to the AI call carries the resolved target
\* descriptor: the line for a line target, the start and the end line for a
\* range target, explicit or derived from a function, and the function name
\* for a function target.
C26_BundleCarriesTarget ==
  result # <<>> =>
    LET bundle == result[1].context
    IN  /\ options.function # <<>> => bundle.functionName = options.function
        /\ Truthy(targetLine) => bundle.lineNumber = targetLine
        /\ targetEndLine # <<>> =>
             /\ "endLine" \in DOMAIN bundle
             /\ bundle.endLine = targetEndLine

\* What explain gives for one target t on its own in the working directory w
\* with the options opts: the message of the Error thrown, or the result.
Outcome(e, r) == [error |-> e, result |-> r]

ExplainAlone(w, opts, t) ==
  LET file == Fixture(w.file)
      named == opts.function # <<>>
      line == IF named THEN findFunction(file, opts.function[1]) ELSE t.lineNumber
      endLine == IF named /\ line # <<>> THEN BraceScan(file, line[1], t.endLine)
                 ELSE t.endLine
      range == BlameRange(line, endLine)
      history == parseBlameOutput(GitBlame(file, range))
      relevant == RelevantCommits(history)
      details == [i \in 1..Len(relevant) |->
                    Merge(relevant[i], CommitDetails(relevant[i].hash[1], w)[1])]
      bundle == [file |-> t.filePath,
                 lineNumber |-> line,
                 functionName |-> opts.function,
                 code |-> getCodeContext(file, ContextLine(line), ContextLines).code,
                 commits |-> details]
  IN  IF ValidationError(w) # <<>> THEN Outcome(ValidationError(w), <<>>)
      ELSE IF named /\ line = <<>> THEN Outcome(<<"Function not found">>, <<>>)
      ELSE IF GitBlameFails(file, range) THEN Outcome(<<"Failed to get git blame">>, <<>>)
      ELSE IF NoHistory(history)
      THEN Outcome(<<"No git history found for this code">>, <<>>)
      ELSE IF \E i \in 1..Len(relevant) : CommitDetails(relevant[i].hash[1], w) = <<>>
      THEN Outcome(<<"Failed to get commit details">>, <<>>)
      ELSE IF ApiKeyError(w) # <<>> THEN Outcome(ApiKeyError(w), <<>>)
      ELSE IF \E i \in 1..Len(relevant) : InvalidDate(relevant[i])
      THEN Outcome(<<"RangeError: Invalid time value">>, <<>>)
      ELSE IF ~w.apiUp THEN Outcome(<<"AI API call failed">>, <<>>)
      ELSE Outcome(<<>>, <<[context |-> bundle, explanation |-> "explanation",
                            commits |-> details]>>)

\* C27: whatever targets were processed before it by the same GitWhy instance,
\* the outcome of each target, result or error, is the outcome of explain on
\* that target alone in the same working directory; a run starts with nothing
\* written by an earlier run.
C27_OutcomeAsAlone ==
  /\ pc = "Validating" =>
       /\ targetLine = <<>> /\ targetEndLine = <<>>
       /\ commits = <<>> /\ commitDetails = <<>>
       /\ context = <<>> /\ prompt = <<>>
       /\ result = <<>> /\ error = <<>>
  /\ pc = "Ready" =>
       Outcome(error, result) = ExplainAlone(repo, options, parsedTargets[index])
  /\ pc = "Failed" =>
       Outcome(error, result) = ExplainAlone(repo, options, parsedTargets[index])

\* The second target of a command line got its result after the first, a
\* different target, got its own.
C27_Witness ==
  /\ pc = "Ready"
  /\ index = 2
  /\ Len(results) = 1
  /\ parsedTargets[1] # parsedTargets[2]

\* C28 as stated: when a command line of several targets has at least one
\* target that succeeds and at least one that fails inside explain, the
\* results of the successful ones are displayed in argument order and the
\* exit code is 0; the exit code is non-zero only when there is no result.
C28_PartialSuccessExitsZero ==
  /\ pc = "exit"
  /\ Len(parsedTargets) > 1
  /\ Len(results) >= 1
  /\ Len(results) < Len(parsedTargets)
  => /\ exitCode = <<0>>
     /\ displayed = [i \in 1..Len(results) |-> Shown(results[i])]

\* C29: in the target loop at most one spinner timer is active at any time;
\* the timer of a target is cleared on the success path and on the failure
\* path before the next target starts or the error is thrown again, none is
\* active when the results are printed, and none is ever started in JSON mode.
C29_OneSpinner ==
  /\ spinner \in {0, 1}
  /\ pc \in {"action", "loop", "exit"} => spinner = 0
  /\ displayed # <<>> => spinner = 0
  /\ options.json => spinner = 0
  /\ spinner = 1 => pc \notin {"action", "loop", "exit"} /\ processed # <<>>

\* The first target failed, its timer was cleared, and the timer of the
\* second target is the only one running.
C29_Witness ==
  /\ index = 2
  /\ stderr # <<>>
  /\ pc = "Validating"
  /\ spinner = 1

====
